---- MODULE Spec2Model ----
(***************************************************************************)
(* A model of package scan (scan.go): the Scanner cursor over a byte       *)
(* string, the driver goroutine started by New that runs the client's      *)
(* state functions, and the consumer that takes items with NextItem        *)
(* through the channel s.items.                                            *)
(*                                                                         *)
(* Strings are sequences of bytes (0..255); a Pos is a byte offset, so     *)
(* the Go slice s[a:b] is SubSeq(s, a+1, b).                               *)
(***************************************************************************)
EXTENDS Integers, Sequences, FiniteSets, TLC

VARIABLES
    input,      \* Scanner.input: the string being scanned
    state,      \* Scanner.state: the next state function, or NilState
    pos,        \* Scanner.pos
    start,      \* Scanner.start
    width,      \* Scanner.width
    lastPos,    \* Scanner.lastPos
    items,      \* Scanner.items: the buffer of the channel
    pc,         \* where the driver goroutine is
    out,        \* the operand of the driver's pending channel send
    op,         \* the method of the Scanner that was called last
    cpc,        \* where the consumer is
    item,       \* NextItem's local variable item
    sent,       \* history: the items the driver passed to a channel send
    received,   \* history: the items NextItem returned
    canBackup,  \* history: the grammar called Next after its last Backup
    lpc,        \* where the example grammar's state function is
    level,      \* lexComment's local variable level
    trail       \* history: the texts emitted and the spans ignored, in order

vars == <<input, state, pos, start, width, lastPos, items, pc, out, op,
          cpc, item, sent, received, canBackup, lpc, level, trail>>

cursor == <<pos, start, width>>

\* what only the example grammar of scan_test.go uses
grammar == <<lpc, level, trail>>

----------------------------------------------------------------------------
(* Bounds of the model. *)

\* the inputs are made of at most MaxUnits encoded units
MaxUnits == 2

\* the driver sends at most MaxItems items
MaxItems == 2

\* the inputs of the example grammar, besides the ones of its tests, are
\* made of at most MaxLexUnits units, or hold a comment with a body of at
\* most MaxBody bytes
MaxLexUnits == 3
MaxBody == 4

----------------------------------------------------------------------------
(* Constants of the package. *)

ERROR == -2
EOF == -1

\* a client item type (the tests' INTEGER)
INTEGER == 0

\* utf8.RuneError, utf8.RuneSelf, utf8.MaxRune
RuneError == 65533
RuneSelf == 128
MaxRune == 1114111

\* the nil StateFn and a non-nil one
NilState == 0
FnState == 1

\* the encoded units the inputs are made of: "\n" and "é"
Units == {<<10>>, <<195, 169>>}

RECURSIVE Concat(_)
Concat(ss) == IF ss = <<>> THEN <<>> ELSE Head(ss) \o Concat(Tail(ss))

Inputs == {Concat(us) : us \in UNION {[1..n -> Units] : n \in 0..MaxUnits}}

\* the sets of runes handed to Accept and AcceptRun: "\n", "é", "a\né"
ValidSets == {<<10>>, <<195, 169>>, <<97, 10, 195, 169>>}

\* the item types handed to Emit
EmitTypes == {EOF, INTEGER}

\* the format string and the arguments handed to Errorf: "E%s", ("x")
Formats == {<<69, 37, 115>>}
ArgLists == {<< <<120>> >>}

----------------------------------------------------------------------------
(* Go's slices and the library functions that scan.go calls. *)

\* s[a:b] panics unless 0 <= a <= b <= len(s)
SliceOK(s, a, b) == 0 <= a /\ a <= b /\ b <= Len(s)

Slice(s, a, b) == SubSeq(s, a + 1, b)

\* utf8.DecodeRuneInString for a non-empty s: the rune and its width
DecodeRuneInString(s) ==
    LET n  == Len(s)
        s0 == s[1]
        \* the size and the accepted range of the second byte, from the
        \* first byte (utf8's tables first and acceptRanges); size 0: invalid
        sz == IF s0 < 194 THEN 0
              ELSE IF s0 < 224 THEN 2
              ELSE IF s0 < 240 THEN 3
              ELSE IF s0 < 245 THEN 4
              ELSE 0
        lo == IF s0 = 224 THEN 160 ELSE IF s0 = 240 THEN 144 ELSE 128
        hi == IF s0 = 237 THEN 159 ELSE IF s0 = 244 THEN 143 ELSE 191
        cont(b) == 128 <= b /\ b <= 191
        bad == [r |-> RuneError, w |-> 1]
    IN  IF s0 < RuneSelf THEN [r |-> s0, w |-> 1]
        ELSE IF sz = 0 \/ n < sz THEN bad
        ELSE IF s[2] < lo \/ hi < s[2] THEN bad
        ELSE IF sz = 2 THEN [r |-> (s0 % 32) * 64 + (s[2] % 64), w |-> 2]
        ELSE IF ~cont(s[3]) THEN bad
        ELSE IF sz = 3
             THEN [r |-> (s0 % 16) * 4096 + (s[2] % 64) * 64 + (s[3] % 64),
                   w |-> 3]
        ELSE IF ~cont(s[4]) THEN bad
        ELSE [r |-> (s0 % 8) * 262144 + (s[2] % 64) * 4096
                     + (s[3] % 64) * 64 + (s[4] % 64),
              w |-> 4]

\* the byte index of the first rune r of s at or after index i, or -1,
\* by the runes `range s` yields
IndexFrom(s, i, r) ==
    LET from[k \in Int] ==
            IF k >= Len(s) THEN -1
            ELSE LET d == DecodeRuneInString(Slice(s, k, Len(s)))
                 IN  IF d.r = r THEN k ELSE from[k + d.w]
    IN  from[i]

\* strings.IndexRune: the byte index of the first r in s, or -1; no string
\* holds a rune that is not valid, as EOF (-1) is not
IndexRune(s, r) ==
    LET valid == 0 <= r /\ r <= MaxRune /\ ~(55296 <= r /\ r <= 57343)
    IN  IF ~valid THEN -1 ELSE IndexFrom(s, 0, r)

\* fmt.Sprintf for formats made of literal bytes, %s and %%, and string
\* arguments; n is the number of the next argument
RECURSIVE Format(_, _, _)
Format(f, args, n) ==
    LET missing == <<37, 33, 115, 40, 77, 73, 83, 83, 73, 78, 71, 41>>
        noverb  == <<37, 33, 40, 78, 79, 86, 69, 82, 66, 41>>
    IN  IF f = <<>> THEN <<>>
        ELSE IF f[1] # 37 THEN <<f[1]>> \o Format(Tail(f), args, n)
        ELSE IF Len(f) = 1 THEN noverb
        ELSE IF f[2] = 37 THEN <<37>> \o Format(Tail(Tail(f)), args, n)
        ELSE IF n > Len(args)
             THEN missing \o Format(Tail(Tail(f)), args, n)
        ELSE args[n] \o Format(Tail(Tail(f)), args, n + 1)

\* the arguments the format did not use: "%!(EXTRA string=x)"
Extra(f, args) ==
    LET verbs == Cardinality({k \in 1..Len(f) - 1 : f[k] = 37 /\ f[k+1] = 115})
    IN  IF verbs >= Len(args) THEN <<>>
        ELSE <<37, 33, 40, 69, 88, 84, 82, 65, 32, 115, 116, 114, 105, 110,
               103, 61>> \o args[verbs + 1] \o <<41>>

Sprintf(f, args) == Format(f, args, 1) \o Extra(f, args)

\* strings.Count(s, "\n")
Count(s) == Cardinality({k \in 1..Len(s) : s[k] = 10})

----------------------------------------------------------------------------
(* The Scanner's methods, as functions of the fields they read. *)

Item(t, p, v) == [Typ |-> t, Pos |-> p, Val |-> v]

\* the zero Item
ZeroItem == Item(0, 0, <<>>)

\* make(chan Item): the capacity of s.items
ChanCap == 0

\* a channel made with make(chan Item, 1)
CanSendBuffered(q, receiving) == Len(q) < 1 \/ receiving

\* a send on s.items completes when the buffer has room or a receiver waits
CanSend(q, receiving) == Len(q) < ChanCap \/ receiving

\* Next: the rune returned and the new pos and width; it indexes
\* input[pos:] and panics for a negative pos
NextOK(p) == p >= 0

Next(in, p, w) ==
    IF p >= Len(in) THEN [r |-> EOF, pos |-> p, width |-> 0]
    ELSE LET d == DecodeRuneInString(Slice(in, p, Len(in)))
         IN  [r |-> d.r, pos |-> p + d.w, width |-> d.w]

\* a Backup that steps back one byte
BackupByte(p, w) == p - 1

Backup(p, w) == p - w

Peek(in, p, w) ==
    LET n == Next(in, p, w)
    IN  [r |-> n.r, pos |-> Backup(n.pos, n.width), width |-> n.width]

Accept(in, p, w, valid) ==
    LET n == Next(in, p, w)
    IN  IF IndexRune(valid, n.r) >= 0
        THEN [ok |-> TRUE, pos |-> n.pos, width |-> n.width]
        ELSE [ok |-> FALSE, pos |-> Backup(n.pos, n.width), width |-> n.width]

\* an AcceptRun that keeps the unit that ended the run
AcceptRunNoBackup(in, p, w, valid) ==
    LET n == Next(in, p, w)
    IN  IF IndexRune(valid, n.r) >= 0 /\ n.width > 0
        THEN [pos |-> Next(in, n.pos, n.width).pos, width |-> n.width]
        ELSE [pos |-> n.pos, width |-> n.width]

\* for s.Accept(valid) { }: run[c] is the cursor the loop leaves, from the
\* cursor c = <<pos, width>>
AcceptRun(in, p, w, valid) ==
    LET run[c \in Int \X Int] ==
            LET n == Next(in, c[1], c[2])
            IN  IF IndexRune(valid, n.r) >= 0
                THEN run[<<n.pos, n.width>>]
                ELSE [pos |-> Backup(n.pos, n.width), width |-> n.width]
    IN  run[<<p, w>>]

\* an Emit that takes the Pos of the item from pos
EmitItemAtPos(t, in, st, p) == Item(t, p, Slice(in, st, p))

\* the item Emit sends
EmitItem(t, in, st, p) == Item(t, st, Slice(in, st, p))

\* the value of start after Emit and after Ignore
EmitStart(st, p) == p

\* an Ignore that leaves start where it is
IgnoreStartKeep(st, p) == st

IgnoreStart(st, p) == p

\* an Errorf that returns a state to go on with
ErrorfResultFn == FnState

\* the item Errorf sends and the state it returns
ErrorfItem(st, f, args) == Item(ERROR, st, Sprintf(f, args))

ErrorfResult == NilState

\* a loop test that never ends the loop
RunLoopForever(st) == "fn"

\* run's loop test: the driver is in a state function or has returned
RunLoop(st) == IF st = NilState THEN "done" ELSE "fn"

\* a LineNumber that counts up to the cursor
LineNumberAtPos(in, lp) == 1 + Count(Slice(in, 0, pos))

LineNumber(in, lp) == 1 + Count(Slice(in, 0, lp))

\* a NextItem that returns the zero Item
NextItemZero(it) == [lastPos |-> it.Pos, result |-> ZeroItem]

\* NextItem: the value of lastPos it leaves and the item it returns
NextItem(it) == [lastPos |-> it.Pos, result |-> it]

----------------------------------------------------------------------------
(* The state after New. *)

Init ==
    /\ input \in Inputs
    /\ state \in {FnState, NilState}
    /\ pos = 0
    /\ start = 0
    /\ width = 0
    /\ lastPos = 0
    /\ items = <<>>
    /\ pc = "go"
    /\ out = ZeroItem
    /\ op = "none"
    /\ cpc = "idle"
    /\ item = ZeroItem
    /\ sent = <<>>
    /\ received = <<>>
    /\ canBackup = FALSE
    /\ lpc = "entry"
    /\ level = 0
    /\ trail = <<>>

----------------------------------------------------------------------------
(* The driver goroutine: run and the calls a state function makes. *)

consumer == <<lastPos, cpc, item, received>>

\* a panic of the driver goroutine ends the program
Panic ==
    /\ pc' = "panic"
    /\ UNCHANGED <<input, state, pos, start, width, lastPos, items, out, op,
                   cpc, item, sent, received, canBackup, grammar>>

\* go s.run(): the goroutine starts with the first test of the loop
Run ==
    /\ pc = "go"
    /\ pc' = RunLoop(state)
    /\ UNCHANGED <<input, state, pos, start, width, items, out, op, sent,
                   canBackup, consumer, grammar>>

\* the state function returns next: run stores it in s.state and tests it
Return(next) ==
    /\ pc = "fn"
    /\ state' = next
    /\ pc' = RunLoop(next)
    /\ op' = "return"
    /\ UNCHANGED <<input, pos, start, width, items, out, sent, canBackup,
                   consumer, grammar>>

DrvNext ==
    /\ pc = "fn"
    /\ IF ~NextOK(pos) THEN Panic
       ELSE LET n == Next(input, pos, width)
            IN  /\ pos' = n.pos
                /\ width' = n.width
                /\ op' = "Next"
                /\ canBackup' = TRUE
                /\ UNCHANGED <<input, state, start, items, pc, out, sent,
                               consumer, grammar>>

DrvPeek ==
    /\ pc = "fn"
    /\ IF ~NextOK(pos) THEN Panic
       ELSE LET n == Peek(input, pos, width)
            IN  /\ pos' = n.pos
                /\ width' = n.width
                /\ op' = "Peek"
                /\ UNCHANGED <<input, state, start, items, pc, out, sent,
                               canBackup, consumer, grammar>>

\* Backup, called within its precondition: once per call of Next
DrvBackup ==
    /\ pc = "fn"
    /\ canBackup
    /\ pos' = Backup(pos, width)
    /\ op' = "Backup"
    /\ canBackup' = FALSE
    /\ UNCHANGED <<input, state, start, width, items, pc, out, sent,
                   consumer, grammar>>

DrvAccept(valid) ==
    /\ pc = "fn"
    /\ IF ~NextOK(pos) THEN Panic
       ELSE LET n == Accept(input, pos, width, valid)
            IN  /\ pos' = n.pos
                /\ width' = n.width
                /\ op' = "Accept"
                /\ canBackup' = (canBackup \/ n.ok)
                /\ UNCHANGED <<input, state, start, items, pc, out, sent,
                               consumer, grammar>>

DrvAcceptRun(valid) ==
    /\ pc = "fn"
    /\ IF ~NextOK(pos) THEN Panic
       ELSE LET n == AcceptRun(input, pos, width, valid)
            IN  /\ pos' = n.pos
                /\ width' = n.width
                /\ op' = "AcceptRun"
                /\ UNCHANGED <<input, state, start, items, pc, out, sent,
                               canBackup, consumer, grammar>>

DrvIgnore ==
    /\ pc = "fn"
    /\ start' = IgnoreStart(start, pos)
    /\ op' = "Ignore"
    /\ UNCHANGED <<input, state, pos, width, items, pc, out, sent,
                   canBackup, consumer, grammar>>

\* Emit up to the channel send: the item is built from input[start:pos]
DrvEmit(t) ==
    /\ pc = "fn"
    /\ Len(sent) < MaxItems
    /\ IF ~SliceOK(input, start, pos) THEN Panic
       ELSE /\ out' = EmitItem(t, input, start, pos)
            /\ sent' = Append(sent, out')
            /\ pc' = "Emit"
            /\ UNCHANGED <<input, state, pos, start, width, items, op,
                           canBackup, consumer, grammar>>

\* Errorf up to the channel send; caller is "Errorf" for a state function
\* that drops the state Errorf returns, "ReturnErrorf" for one that returns it
ErrorfCall(f, args, caller) ==
    /\ pc = "fn"
    /\ Len(sent) < MaxItems
    /\ out' = ErrorfItem(start, f, args)
    /\ sent' = Append(sent, out')
    /\ pc' = caller
    /\ UNCHANGED <<input, state, pos, start, width, items, op, canBackup,
                   consumer, grammar>>

\* s.Errorf(...)
DrvErrorf(f, args) == ErrorfCall(f, args, "Errorf")

\* return s.Errorf(...)
DrvReturnErrorf(f, args) == ErrorfCall(f, args, "ReturnErrorf")

\* the send s.items <- item completes, and with it the rest of Emit or of
\* Errorf; a waiting receiver gets the item in the same step
Send ==
    /\ pc \in {"Emit", "Errorf", "ReturnErrorf"}
    /\ CanSend(items, cpc = "recv")
    /\ IF cpc = "recv" /\ items = <<>>
       THEN /\ item' = out
            /\ cpc' = "got"
            /\ items' = items
       ELSE /\ items' = Append(items, out)
            /\ UNCHANGED <<cpc, item>>
    /\ out' = ZeroItem
    /\ start' = IF pc = "Emit" THEN EmitStart(start, pos) ELSE start
    /\ state' = IF pc = "ReturnErrorf" THEN ErrorfResult ELSE state
    /\ pc' = IF pc = "ReturnErrorf" THEN RunLoop(state') ELSE "fn"
    /\ op' = IF pc = "Emit" THEN "Emit" ELSE "Errorf"
    /\ UNCHANGED <<input, pos, width, lastPos, sent, received, canBackup,
                   grammar>>

Driver ==
    \/ Run
    \/ \E next \in {NilState, FnState} : Return(next)
    \/ DrvNext
    \/ DrvPeek
    \/ DrvBackup
    \/ \E valid \in ValidSets : DrvAccept(valid)
    \/ \E valid \in ValidSets : DrvAcceptRun(valid)
    \/ DrvIgnore
    \/ \E t \in EmitTypes : DrvEmit(t)
    \/ \E f \in Formats, args \in ArgLists : DrvErrorf(f, args)
    \/ \E f \in Formats, args \in ArgLists : DrvReturnErrorf(f, args)
    \/ Send

----------------------------------------------------------------------------
(* The consumer: the goroutine that called New. *)

driver == <<input, state, pos, start, width, pc, out, sent, canBackup>>

\* NextItem up to the receive: it takes a buffered item or waits
NextItemCall ==
    /\ pc # "panic"
    /\ cpc = "idle"
    /\ IF items # <<>>
       THEN /\ item' = Head(items)
            /\ items' = Tail(items)
            /\ cpc' = "got"
       ELSE /\ cpc' = "recv"
            /\ UNCHANGED <<item, items>>
    /\ UNCHANGED <<lastPos, op, received, driver, grammar>>

\* NextItem after the receive: lastPos = item.Pos; return item
NextItemReturn ==
    /\ pc # "panic"
    /\ cpc = "got"
    /\ lastPos' = NextItem(item).lastPos
    /\ received' = Append(received, NextItem(item).result)
    /\ item' = ZeroItem
    /\ cpc' = "idle"
    /\ op' = "NextItem"
    /\ UNCHANGED <<items, driver, grammar>>

\* LineNumber called between two calls of NextItem; it slices
\* input[:lastPos] and returns LineNumber(input, lastPos)
CallLineNumber ==
    /\ pc # "panic"
    /\ cpc = "idle"
    /\ IF ~SliceOK(input, 0, lastPos) THEN Panic
       ELSE /\ op' = "LineNumber"
            /\ UNCHANGED <<lastPos, cpc, item, received, items, driver,
                           grammar>>

Consumer ==
    \/ NextItemCall
    \/ NextItemReturn
    \/ CallLineNumber

----------------------------------------------------------------------------

Step == Driver \/ Consumer

Spec == Init /\ [][Step]_vars

\* the scheduler runs a goroutine that can take a step
FairSpec == Spec /\ WF_vars(Driver) /\ WF_vars(Consumer)

----------------------------------------------------------------------------
(* The example grammar of scan_test.go and its consumer, collect.          *)

\* the item types of the grammar, after INTEGER
IDENTIFIER == 1
LPAREN == 2
RPAREN == 3
PLUS == 4
MINUS == 5

\* the state functions, as the values of s.state
lexStart == 2
lexOperator == 3
lexIdentifier == 4
lexInteger == 5
lexSpace == 6
lexComment == 7

\* the strings "+-()", "0123456789" and "lex error"
operators == <<43, 45, 40, 41>>
digits == [i \in 1..10 |-> 47 + i]
lexError == <<108, 101, 120, 32, 101, 114, 114, 111, 114>>

\* unicode.IsLetter and unicode.IsDigit on the runes up to U+00FF (the
\* Latin-1 tables): the inputs of the model hold no other rune, and EOF
\* (-1) is neither
IsLetter(r) ==
    \/ 65 <= r /\ r <= 90
    \/ 97 <= r /\ r <= 122
    \/ r \in {170, 181, 186}
    \/ 192 <= r /\ r <= 214
    \/ 216 <= r /\ r <= 246
    \/ 248 <= r /\ r <= 255

IsDigit(r) == 48 <= r /\ r <= 57

isAlphaNumeric(r) == IsLetter(r) \/ IsDigit(r)

\* What a call of a state function does up to its return or its channel
\* send: cur.pos and cur.width are the cursor it leaves, st the start, skip
\* the spans it ignored, last the cursor method it called last, nexted
\* whether it called Next itself; act is how it ends.
\* ... return next
Returns(cur, st, skip, last, nexted, next) ==
    [pos |-> cur.pos, width |-> cur.width, start |-> st, level |-> 0,
     skip |-> skip, op |-> last, nexted |-> nexted,
     act |-> "return", typ |-> 0, next |-> next]

\* ... s.Emit(typ), and after it return next
Emits(cur, st, last, nexted, typ, next) ==
    [pos |-> cur.pos, width |-> cur.width, start |-> st, level |-> 0,
     skip |-> <<>>, op |-> last, nexted |-> nexted,
     act |-> "Emit", typ |-> typ, next |-> next]

\* ... return s.Errorf("lex error")
ReturnsErrorf(cur, st, last, nexted) ==
    [pos |-> cur.pos, width |-> cur.width, start |-> st, level |-> 0,
     skip |-> <<>>, op |-> last, nexted |-> nexted,
     act |-> "ReturnErrorf", typ |-> ERROR, next |-> NilState]

\* ... lexComment's loop at level lv, after s.Errorf("lex error") if failed
Loops(cur, st, lv, failed) ==
    [pos |-> cur.pos, width |-> cur.width, start |-> st, level |-> lv,
     skip |-> <<>>, op |-> "Next", nexted |-> TRUE,
     act |-> IF failed THEN "Errorf" ELSE "loop", typ |-> ERROR,
     next |-> lexComment]

\* a lexStart that skips a unit no branch matches
CallLexStartSkip(in, p, st, w) ==
    LET pk == Peek(in, p, w)
        n  == Next(in, pk.pos, pk.width)
    IN  IF IsLetter(pk.r) THEN Returns(pk, st, <<>>, "Peek", FALSE, lexIdentifier)
        ELSE IF IsDigit(pk.r) THEN Returns(pk, st, <<>>, "Peek", FALSE, lexInteger)
        ELSE IF IndexRune(operators, pk.r) >= 0
             THEN Returns(pk, st, <<>>, "Peek", FALSE, lexOperator)
        ELSE IF pk.r = 32 THEN Returns(pk, st, <<>>, "Peek", FALSE, lexSpace)
        ELSE IF pk.r = EOF THEN Emits(pk, st, "Peek", FALSE, EOF, NilState)
        ELSE Returns(n, IgnoreStart(st, n.pos), <<Slice(in, st, n.pos)>>,
                     "Ignore", TRUE, lexStart)

CallLexStart(in, p, st, w) ==
    LET pk == Peek(in, p, w)
        n  == Next(in, pk.pos, pk.width)
    IN  IF IsLetter(pk.r) THEN Returns(pk, st, <<>>, "Peek", FALSE, lexIdentifier)
        ELSE IF IsDigit(pk.r) THEN Returns(pk, st, <<>>, "Peek", FALSE, lexInteger)
        ELSE IF IndexRune(operators, pk.r) >= 0
             THEN Returns(pk, st, <<>>, "Peek", FALSE, lexOperator)
        ELSE IF pk.r = 32 THEN Returns(pk, st, <<>>, "Peek", FALSE, lexSpace)
        ELSE IF pk.r = 10
             THEN Returns(n, IgnoreStart(st, n.pos), <<Slice(in, st, n.pos)>>,
                          "Ignore", TRUE, lexStart)
        ELSE IF pk.r = EOF THEN Emits(pk, st, "Peek", FALSE, EOF, NilState)
        ELSE ReturnsErrorf(pk, st, "Peek", FALSE)

CallLexOperator(in, p, st, w) ==
    LET n  == Next(in, p, w)
        pk == Peek(in, n.pos, n.width)
    IN  IF n.r = 43 THEN Emits(n, st, "Next", TRUE, PLUS, lexStart)
        ELSE IF n.r = 45 THEN Emits(n, st, "Next", TRUE, MINUS, lexStart)
        ELSE IF n.r = 40
             THEN IF pk.r = 42
                  THEN Returns(pk, st, <<>>, "Peek", TRUE, lexComment)
                  ELSE Emits(pk, st, "Peek", TRUE, LPAREN, lexStart)
        ELSE IF n.r = 41 THEN Emits(n, st, "Next", TRUE, RPAREN, lexStart)
        ELSE Returns(n, st, <<>>, "Next", TRUE, lexStart)

\* for isAlphaNumeric(s.Peek()) { s.Next() }: the cursor the loop leaves
IdentifierLoop(in, p, w) ==
    LET loop[c \in Int \X Int] ==
            LET pk == Peek(in, c[1], c[2])
                n  == Next(in, pk.pos, pk.width)
            IN  IF isAlphaNumeric(pk.r) THEN loop[<<n.pos, n.width>>]
                ELSE [pos |-> pk.pos, width |-> pk.width]
    IN  loop[<<p, w>>]

CallLexIdentifier(in, p, st, w) ==
    LET c == IdentifierLoop(in, p, w)
    IN  Emits(c, st, "Peek", c.pos > p, IDENTIFIER, lexStart)

\* a lexInteger that calls Accept, not AcceptRun
CallLexIntegerAccept(in, p, st, w) ==
    Emits(Accept(in, p, w, digits), st, "Accept", FALSE, INTEGER, lexStart)

CallLexInteger(in, p, st, w) ==
    Emits(AcceptRun(in, p, w, digits), st, "AcceptRun", FALSE, INTEGER,
          lexStart)

\* for s.Peek() == ' ' { s.Next() }: the cursor the loop leaves
SpaceLoop(in, p, w) ==
    LET loop[c \in Int \X Int] ==
            LET pk == Peek(in, c[1], c[2])
                n  == Next(in, pk.pos, pk.width)
            IN  IF pk.r = 32 THEN loop[<<n.pos, n.width>>]
                ELSE [pos |-> pk.pos, width |-> pk.width]
    IN  loop[<<p, w>>]

\* a lexSpace that leaves out s.Ignore()
CallLexSpaceNoIgnore(in, p, st, w) ==
    LET c == SpaceLoop(in, p, w)
    IN  Returns(c, st, <<>>, "Peek", c.pos > p, lexStart)

CallLexSpace(in, p, st, w) ==
    LET c == SpaceLoop(in, p, w)
    IN  Returns(c, IgnoreStart(st, c.pos), <<Slice(in, st, c.pos)>>,
                "Ignore", c.pos > p, lexStart)

\* lexComment up to its loop: level is 1
CallLexComment(in, p, st, w) ==
    LET n == Next(in, p, w)
    IN  Loops(n, st, 1, n.r # 42)

\* a round of the loop that does not count the comments opened inside
CommentLoopFlat(in, p, st, w, lv) ==
    LET n      == Next(in, p, w)
        pk     == Peek(in, n.pos, n.width)
        n2     == Next(in, pk.pos, pk.width)
        closes == n.r = 42 /\ pk.r = 41
        c      == IF closes THEN n2 ELSE IF n.r = 42 THEN pk ELSE n
        lv2    == IF closes THEN lv - 1 ELSE lv
    IN  IF lv2 = 0
        THEN Returns(c, IgnoreStart(st, c.pos), <<Slice(in, st, c.pos)>>,
                     "Ignore", TRUE, lexStart)
        ELSE Loops(c, st, lv2, FALSE)

\* one round of lexComment's loop at level lv: the switch on s.Next() and
\* the test of level
CommentLoop(in, p, st, w, lv) ==
    LET n      == Next(in, p, w)
        pk     == Peek(in, n.pos, n.width)
        n2     == Next(in, pk.pos, pk.width)
        opens  == n.r = 40 /\ pk.r = 42
        closes == n.r = 42 /\ pk.r = 41
        c      == IF opens \/ closes THEN n2
                  ELSE IF n.r \in {40, 42} THEN pk
                  ELSE n
        lv2    == IF opens THEN lv + 1 ELSE IF closes THEN lv - 1 ELSE lv
    IN  IF lv2 = 0
        THEN Returns(c, IgnoreStart(st, c.pos), <<Slice(in, st, c.pos)>>,
                     "Ignore", TRUE, lexStart)
        ELSE Loops(c, st, lv2, FALSE)

\* the state function returns this after its Emit
AfterEmit(fn) == IF fn = lexStart THEN NilState ELSE lexStart

\* the entries of trail: a span ignored, the text of an item emitted
Skipped(skip) == [i \in 1..Len(skip) |-> [item |-> FALSE, text |-> skip[i]]]

Emitted(it) ==
    IF it.Typ \in {EOF, ERROR} THEN <<>>
    ELSE <<[item |-> TRUE, text |-> it.Val]>>

\* the driver takes the step r of a state function
Do(r) ==
    IF r.act = "Emit" /\ ~SliceOK(input, r.start, r.pos) THEN Panic
    ELSE /\ pos' = r.pos
         /\ width' = r.width
         /\ start' = r.start
         /\ level' = r.level
         /\ op' = r.op
         /\ canBackup' = (canBackup \/ r.nexted)
         /\ CASE r.act = "return" ->
                    /\ state' = r.next
                    /\ pc' = RunLoop(r.next)
                    /\ lpc' = "entry"
                    /\ trail' = trail \o Skipped(r.skip)
                    /\ UNCHANGED <<out, sent>>
              [] r.act = "loop" ->
                    /\ lpc' = "loop"
                    /\ UNCHANGED <<state, pc, out, sent, trail>>
              [] r.act = "Emit" ->
                    /\ out' = EmitItem(r.typ, input, r.start, r.pos)
                    /\ sent' = Append(sent, out')
                    /\ pc' = "Emit"
                    /\ lpc' = "emitted"
                    /\ trail' = trail \o Emitted(out')
                    /\ UNCHANGED state
              [] r.act = "Errorf" ->
                    /\ out' = ErrorfItem(r.start, lexError, <<>>)
                    /\ sent' = Append(sent, out')
                    /\ pc' = "Errorf"
                    /\ lpc' = "loop"
                    /\ UNCHANGED <<state, trail>>
              [] r.act = "ReturnErrorf" ->
                    /\ out' = ErrorfItem(r.start, lexError, <<>>)
                    /\ sent' = Append(sent, out')
                    /\ pc' = "ReturnErrorf"
                    /\ lpc' = "entry"
                    /\ UNCHANGED <<state, trail>>
         /\ UNCHANGED <<input, items, consumer>>

\* run calls s.state, which is fn
Called(fn) == pc = "fn" /\ lpc = "entry" /\ state = fn

LexStart ==
    /\ Called(lexStart)
    /\ \E r \in {CallLexStart(input, pos, start, width)} : Do(r)

LexOperator ==
    /\ Called(lexOperator)
    /\ \E r \in {CallLexOperator(input, pos, start, width)} : Do(r)

LexIdentifier ==
    /\ Called(lexIdentifier)
    /\ \E r \in {CallLexIdentifier(input, pos, start, width)} : Do(r)

LexInteger ==
    /\ Called(lexInteger)
    /\ \E r \in {CallLexInteger(input, pos, start, width)} : Do(r)

LexSpace ==
    /\ Called(lexSpace)
    /\ \E r \in {CallLexSpace(input, pos, start, width)} : Do(r)

LexComment ==
    /\ Called(lexComment)
    /\ \E r \in {CallLexComment(input, pos, start, width)} : Do(r)

LexCommentLoop ==
    /\ pc = "fn"
    /\ lpc = "loop"
    /\ \E r \in {CommentLoop(input, pos, start, width, level)} : Do(r)

\* Emit has returned: the state function returns
LexReturn ==
    /\ pc = "fn"
    /\ lpc = "emitted"
    /\ state' = AfterEmit(state)
    /\ pc' = RunLoop(state')
    /\ lpc' = "entry"
    /\ op' = "return"
    /\ UNCHANGED <<input, pos, start, width, items, out, sent, canBackup,
                   level, trail, consumer>>

LexDriver ==
    \/ Run
    \/ LexStart
    \/ LexOperator
    \/ LexIdentifier
    \/ LexInteger
    \/ LexSpace
    \/ LexComment
    \/ LexCommentLoop
    \/ LexReturn
    \/ Send

\* collect has received EOF or ERROR and has left its loop
Collected == received # <<>> /\ received[Len(received)].Typ \in {EOF, ERROR}

\* collect: for { item := s.NextItem(); ...; if EOF or ERROR { break } }
CollectCall == ~Collected /\ NextItemCall

Collect ==
    \/ CollectCall
    \/ NextItemReturn

\* the inputs of lexTests, and "123+"
TestEmpty == <<>>
TestSpaces == <<32, 32, 32>>
TestIdentifiers == <<104, 111, 107, 117, 115, 32, 112, 111, 107, 117, 115>>
TestComment ==
    <<104, 111, 107, 117, 115, 32, 40, 42, 32, 102, 105, 114, 115, 116,
      32, 40, 42, 41, 32, 110, 101, 115, 116, 101, 100, 32, 42, 41, 32,
      108, 97, 115, 116, 32, 42, 41, 32, 112, 111, 107, 117, 115>>
TestIntegers == <<49, 50, 51, 32, 54, 53, 52, 32, 57, 57, 48>>
TestExpr ==
    <<40, 49, 50, 51, 32, 43, 32, 54, 53, 52, 41, 32, 45, 32, 57, 57, 48>>
TestPlus == <<49, 50, 51, 43>>

LexTests ==
    {TestEmpty, TestSpaces, TestIdentifiers, TestComment, TestIntegers,
     TestExpr, TestPlus}

\* the units of the other inputs: a 1 + - ( ) * space newline ! and e-acute
LexUnits ==
    {<<97>>, <<49>>, <<43>>, <<45>>, <<40>>, <<41>>, <<42>>, <<32>>, <<10>>,
     <<33>>, <<195, 169>>}

\* the strings of at most n of the units of a set
Strings(units, n) ==
    {Concat(us) : us \in UNION {[1..k -> units] : k \in 0..n}}

\* the offset after the "*)" that brings the depth of nesting from d at
\* offset i of s to zero, or -1: "(*" opens, "*)" closes, the first that
\* fits at an offset is taken
RECURSIVE CommentEnd(_, _, _)
CommentEnd(s, i, d) ==
    IF i >= Len(s) THEN -1
    ELSE IF i + 1 < Len(s) /\ s[i + 1] = 40 /\ s[i + 2] = 42
         THEN CommentEnd(s, i + 2, d + 1)
    ELSE IF i + 1 < Len(s) /\ s[i + 1] = 42 /\ s[i + 2] = 41
         THEN IF d = 1 THEN i + 2 ELSE CommentEnd(s, i + 2, d - 1)
    ELSE CommentEnd(s, i + 1, d)

\* c is one balanced comment: "(*" up to the "*)" that closes it
IsComment(c) ==
    /\ Len(c) >= 4
    /\ c[1] = 40
    /\ c[2] = 42
    /\ CommentEnd(c, 2, 1) = Len(c)

\* the comments "(*" body "*)" with a body of ( * ) a of at most
\* MaxBody bytes
Comments ==
    {c \in {<<40, 42>> \o b \o <<42, 41>> :
                b \in Strings({<<40>>, <<42>>, <<41>>, <<97>>}, MaxBody)} :
        IsComment(c)}

\* what stands before and after a comment: nothing, a, 1, ( and nothing,
\* a, ), space
Before == {<<>>, <<97>>, <<49>>, <<40>>}
After == {<<>>, <<97>>, <<41>>, <<32>>}

CommentInputs == {u \o c \o v : u \in Before, c \in Comments, v \in After}

LexInputs == LexTests \cup Strings(LexUnits, MaxLexUnits) \cup CommentInputs

LexInit ==
    /\ input \in LexInputs
    /\ state = lexStart
    /\ pos = 0
    /\ start = 0
    /\ width = 0
    /\ lastPos = 0
    /\ items = <<>>
    /\ pc = "go"
    /\ out = ZeroItem
    /\ op = "none"
    /\ cpc = "idle"
    /\ item = ZeroItem
    /\ sent = <<>>
    /\ received = <<>>
    /\ canBackup = FALSE
    /\ lpc = "entry"
    /\ level = 0
    /\ trail = <<>>

LexStep == LexDriver \/ Collect

LexSpec == LexInit /\ [][LexStep]_vars

\* the step the driver takes next in the configuration c of the grammar
StepOf(in, c) ==
    IF c.lpc = "loop"
    THEN CommentLoop(in, c.pos, c.start, c.width, c.level)
    ELSE IF c.state = lexStart
    THEN CallLexStart(in, c.pos, c.start, c.width)
    ELSE IF c.state = lexOperator
    THEN CallLexOperator(in, c.pos, c.start, c.width)
    ELSE IF c.state = lexIdentifier
    THEN CallLexIdentifier(in, c.pos, c.start, c.width)
    ELSE IF c.state = lexInteger
    THEN CallLexInteger(in, c.pos, c.start, c.width)
    ELSE IF c.state = lexSpace
    THEN CallLexSpace(in, c.pos, c.start, c.width)
    ELSE CallLexComment(in, c.pos, c.start, c.width)

\* the items run sends with the grammar from the configuration c on, in at
\* most fuel steps, when every send is received
RECURSIVE ScanFrom(_, _, _)
ScanFrom(in, c, fuel) ==
    IF fuel = 0 \/ c.state = NilState THEN <<>>
    ELSE LET r == StepOf(in, c)
             to(fn, l, st) ==
                [state |-> fn, lpc |-> l, pos |-> r.pos, start |-> st,
                 width |-> r.width, level |-> r.level]
         IN  CASE r.act = "return" ->
                    ScanFrom(in, to(r.next, "entry", r.start), fuel - 1)
               [] r.act = "loop" ->
                    ScanFrom(in, to(c.state, "loop", r.start), fuel - 1)
               [] r.act = "Emit" ->
                    <<EmitItem(r.typ, in, r.start, r.pos)>>
                    \o ScanFrom(in, to(r.next, "entry",
                                       EmitStart(r.start, r.pos)), fuel - 1)
               [] r.act = "Errorf" ->
                    <<ErrorfItem(r.start, lexError, <<>>)>>
                    \o ScanFrom(in, to(c.state, "loop", r.start), fuel - 1)
               [] r.act = "ReturnErrorf" ->
                    <<ErrorfItem(r.start, lexError, <<>>)>>
                    \o ScanFrom(in, to(ErrorfResult, "entry", r.start),
                                fuel - 1)

\* the items of a whole scan of in
Scan(in) ==
    ScanFrom(in, [state |-> lexStart, lpc |-> "entry", pos |-> 0,
                  start |-> 0, width |-> 0, level |-> 0], 3 * Len(in) + 3)

----------------------------------------------------------------------------
(* What the claims are stated with. *)

Last(q) == q[Len(q)]

IsPrefix(a, b) == Len(a) <= Len(b) /\ SubSeq(b, 1, Len(a)) = a

\* the driver is blocked in the send of Emit or of Errorf
Sending == pc \in {"Emit", "Errorf", "ReturnErrorf"}

\* the items the consumer has received from the channel so far
Taken == IF cpc = "got" THEN Append(received, item) ELSE received

\* the items sent and not yet received
Untaken == items \o (IF Sending THEN <<out>> ELSE <<>>)

\* the step completes the driver's pending send
SendDone == Sending /\ ~Sending' /\ pc' # "panic"

\* the bytes of input from offset a up to offset b
Bytes(a, b) == [i \in 1..(b - a) |-> input[a + i]]

\* the unit that starts at offset p of the input, p < Len(input)
UnitAt(p) == DecodeRuneInString(Slice(input, p, Len(input)))

\* the unit boundaries at or after offset p
RECURSIVE Boundaries(_)
Boundaries(p) ==
    IF p >= Len(input) THEN {p} ELSE {p} \cup Boundaries(p + UnitAt(p).w)

\* the runes of the string s from byte index i on
RECURSIVE RunesFrom(_, _)
RunesFrom(s, i) ==
    IF i >= Len(s) THEN {}
    ELSE LET d == DecodeRuneInString(Slice(s, i, Len(s)))
         IN  {d.r} \cup RunesFrom(s, i + d.w)

Runes(valid) == RunesFrom(valid, 0)

\* the unit at offset p exists and is one of the runes of valid
Member(valid, p) == p < Len(input) /\ UnitAt(p).r \in Runes(valid)

\* the number of newline bytes before offset p of the input
NewlinesBefore(p) == Cardinality({i \in 1..p : input[i] = 10})

\* the Pos of the item NextItem returned last, 0 before the first
LastReturnedPos == IF received = <<>> THEN 0 ELSE Last(received).Pos

NonDecreasing(q) == \A i, j \in 1..Len(q) : i <= j => q[i].Pos <= q[j].Pos

\* the kinds and the texts of the items of q
Kinds(q) == [i \in 1..Len(q) |-> <<q[i].Typ, q[i].Val>>]

Sentinel(it) == it.Typ \in {EOF, ERROR}

\* the texts of trail joined, and the texts of its emitted items
Texts(tr) == Concat([i \in 1..Len(tr) |-> tr[i].text])

IsItem(e) == e.item

ItemTexts(tr) ==
    LET es == SelectSeq(tr, IsItem) IN [i \in 1..Len(es) |-> es[i].text]

NotSentinel(it) == ~Sentinel(it)

Vals(q) ==
    LET is == SelectSeq(q, NotSentinel) IN [i \in 1..Len(is) |-> is[i].Val]

\* in holds spaces and newlines only
Whitespace(in) == \A i \in 1..Len(in) : in[i] \in {32, 10}

\* no branch of lexStart matches the rune r
Unmatched(r) ==
    /\ ~IsLetter(r)
    /\ ~IsDigit(r)
    /\ r \notin {43, 45, 40, 41, 32, 10, EOF}

\* the item type of the operator character o
OpType(o) ==
    IF o = 43 THEN PLUS ELSE IF o = 45 THEN MINUS
    ELSE IF o = 40 THEN LPAREN ELSE RPAREN

----------------------------------------------------------------------------
(* C1: the items NextItem has returned are, in order, the items the driver *)
(* sent through Emit and Errorf: they are the first items sent, and while  *)
(* the program runs the only sent items not yet returned are the ones      *)
(* still on their way (the operand of the pending send, the channel,       *)
(* NextItem's local item).                                                 *)
C1_SameSequence ==
    /\ IsPrefix(received, sent)
    /\ pc # "panic" => sent = Taken \o Untaken

C1_Witness ==
    /\ Len(received) = 2
    /\ received = sent
    /\ received[1] # received[2]

(* C2: the hand-off is a rendezvous. A send completes only in the step in  *)
(* which the consumer, waiting in NextItem, receives the item sent, and a  *)
(* waiting NextItem receives only in such a step; at most one item sent is *)
(* not yet received, and while it is not the driver is blocked in its send *)
(* (until a panic ends the program) and pos, start, width and state do not *)
(* change.                                                                 *)
C2_Rendezvous ==
    /\ [](Len(sent) <= Len(Taken) + 1)
    /\ [](Len(sent) > Len(Taken) => Sending \/ pc = "panic")
    /\ [][/\ SendDone => cpc = "recv" /\ Taken' = Append(Taken, out)
          /\ (cpc = "recv" /\ cpc' # "recv") => SendDone /\ item' = out
          /\ (Len(sent) > Len(Taken) /\ Len(sent') > Len(Taken'))
                => UNCHANGED <<pos, start, width, state>>]_vars

C2_Witness ==
    /\ Sending
    /\ cpc = "idle"
    /\ Len(sent) = 2
    /\ Len(Taken) = 1

(* C3: Emit(t) hands off exactly one item; its Typ is t, its Pos is the    *)
(* start before the call and its Val is the bytes of input from start up   *)
(* to pos; after the hand-off start = pos, and pos, width and input are    *)
(* the ones before the call.                                               *)
C3_Emit ==
    [][/\ \A t \in EmitTypes :
            (DrvEmit(t) /\ pc' = "Emit") =>
                /\ out' = [Typ |-> t, Pos |-> start, Val |-> Bytes(start, pos)]
                /\ sent' = Append(sent, out')
                /\ UNCHANGED <<input, pos, start, width>>
                /\ Taken' = Taken
       /\ (pc = "Emit" /\ pc' = "Emit") => UNCHANGED <<input, pos, start,
                                                       width, out>>
       /\ (pc = "Emit" /\ SendDone) =>
                /\ Taken' = Append(Taken, out)
                /\ sent' = sent
                /\ start' = pos
                /\ UNCHANGED <<input, pos, width>>]_vars

C3_Witness ==
    /\ op = "Emit"
    /\ Taken # <<>>
    /\ Last(Taken).Typ = INTEGER
    /\ Last(Taken).Pos = 1
    /\ Last(Taken).Val = <<195, 169>>
    /\ start = 3
    /\ pos = 3

(* C4: Errorf hands off exactly one item; its Typ is ERROR, its Pos is     *)
(* start and its Val is the formatted message ("E%s" with "x": "Ex");      *)
(* pos, start and width stay as they are; the state it returns is nil, so  *)
(* when the state function returns that state the driver halts, and the    *)
(* ERROR item stays the last item sent.                                    *)
C4_Errorf ==
    [][/\ \A f \in Formats, args \in ArgLists :
            (DrvErrorf(f, args) \/ DrvReturnErrorf(f, args)) =>
                /\ out' = [Typ |-> ERROR, Pos |-> start,
                           Val |-> <<69>> \o args[1]]
                /\ sent' = Append(sent, out')
                /\ Taken' = Taken
                /\ UNCHANGED <<pos, start, width>>
       /\ (pc \in {"Errorf", "ReturnErrorf"} /\ SendDone) =>
                /\ Taken' = Append(Taken, out)
                /\ sent' = sent
                /\ UNCHANGED <<pos, start, width>>
       /\ (pc = "ReturnErrorf" /\ SendDone) =>
                /\ state' = NilState
                /\ pc' = "done"
                /\ Last(sent').Typ = ERROR
       /\ pc = "done" => pc' \in {"done", "panic"} /\ sent' = sent]_vars

C4_Witness ==
    /\ pc = "done"
    /\ state = NilState
    /\ received = sent
    /\ sent # <<>>
    /\ Last(sent).Typ = ERROR
    /\ Last(sent).Pos = 2
    /\ pos = 3

(* C5: once the driver has sent EOF or ERROR and has halted, a call of     *)
(* NextItem that waits for an item returns.                                *)
C5_NextItemReturns ==
    (/\ pc = "done"
     /\ cpc = "recv"
     /\ sent # <<>>
     /\ Last(sent).Typ \in {EOF, ERROR}) ~> (cpc # "recv")

(* C6: Peek leaves pos and start as they are and returns the unit at pos   *)
(* (EOF at the end of the input), which is the unit a Peek or a Next       *)
(* called right after it returns.                                          *)
C6_PeekIdempotent ==
    [][(DrvPeek /\ pc' # "panic") =>
            /\ pos' = pos
            /\ start' = start
            /\ Peek(input, pos, width).r =
                    IF pos >= Len(input) THEN EOF ELSE UnitAt(pos).r
            /\ Peek(input, pos', width').r = Peek(input, pos, width).r
            /\ Next(input, pos', width').r = Peek(input, pos, width).r]_vars

C6_Witness ==
    /\ op = "Peek"
    /\ input = <<10, 195, 169>>
    /\ pos = 1
    /\ width = 2

(* C7: Peek leaves width as it is.                                         *)
C7_PeekKeepsWidth ==
    [][(DrvPeek /\ pc' # "panic") => width' = width]_vars

(* C8: AcceptRun(valid) leaves pos at the first unit boundary at or after  *)
(* pos whose unit is not in valid (the end of the input when every unit    *)
(* left is in valid) and leaves start as it is; Accept(valid) moves pos    *)
(* over the unit at pos and returns true when that unit is in valid, and   *)
(* returns false with pos as it is otherwise.                              *)
C8_AcceptRun ==
    [][\A valid \in ValidSets :
        /\ (op' = "AcceptRun" /\ pc' = "fn" /\ cpc' = cpc
                /\ DrvAcceptRun(valid)) =>
                /\ pos' \in Boundaries(pos)
                /\ ~Member(valid, pos')
                /\ \A q \in Boundaries(pos) : q < pos' => Member(valid, q)
                /\ start' = start
        /\ (op' = "Accept" /\ pc' = "fn" /\ cpc' = cpc
                /\ DrvAccept(valid)) =>
                /\ Accept(input, pos, width, valid).ok = Member(valid, pos)
                /\ pos' = IF Member(valid, pos) THEN pos + UnitAt(pos).w
                          ELSE pos
                /\ start' = start]_vars

C8_Witness ==
    /\ op = "AcceptRun"
    /\ input = <<195, 169, 10>>
    /\ start = 0
    /\ pos = 2
    /\ width = 1
    /\ ~canBackup

(* C9, as amended: LineNumber returns one more than the number of newline  *)
(* bytes of the input before the Pos of the item NextItem returned last,   *)
(* and Next, Peek and Backup do not change what it returns.                *)
C9_LineNumber ==
    /\ [](op = "LineNumber" =>
            LineNumber(input, lastPos) = 1 + NewlinesBefore(LastReturnedPos))
    /\ [][(DrvNext \/ DrvPeek \/ DrvBackup) =>
            LineNumber(input', lastPos') = LineNumber(input, lastPos)]_vars

C9_Witness ==
    /\ op = "LineNumber"
    /\ LineNumber(input, lastPos) = 2
    /\ received # <<>>
    /\ pos # lastPos

(* C9, as claimed: LineNumber returns the number of newline bytes of the   *)
(* input before the Pos of the item NextItem returned last, and Next, Peek *)
(* and Backup do not change what it returns.                               *)
C9_Original ==
    /\ [](op = "LineNumber" =>
            LineNumber(input, lastPos) = NewlinesBefore(LastReturnedPos))
    /\ [][(DrvNext \/ DrvPeek \/ DrvBackup) =>
            LineNumber(input', lastPos') = LineNumber(input, lastPos)]_vars

(* C10: the Pos fields of the items sent are non-decreasing, for a chain   *)
(* of state functions that calls Backup at most once per call of Next.     *)
C10_NonDecreasing == NonDecreasing(sent)

(* C11, as amended: in a scan with the example grammar the texts of the    *)
(* items emitted that are not sentinels, in order, with the spans ignored  *)
(* between them, join to the input up to start (up to pos while Emit       *)
(* waits in its send): no byte is covered twice and none is left out. They *)
(* join to the whole input when the scan ends with EOF, and to the input   *)
(* up to the Pos of the ERROR item when it ends with ERROR.                *)
C11_Reconstruction ==
    /\ ItemTexts(trail) = Vals(sent)
    /\ Texts(trail) = Slice(input, 0, IF pc = "Emit" THEN pos ELSE start)
    /\ (pc = "done" /\ Last(sent).Typ = EOF) => Texts(trail) = input
    /\ (pc = "done" /\ Last(sent).Typ = ERROR) =>
            Texts(trail) = Slice(input, 0, Last(sent).Pos)

C11_Witness ==
    /\ pc = "done"
    /\ Last(sent).Typ = EOF
    /\ Len(trail) = 3
    /\ trail[1].item
    /\ ~trail[2].item
    /\ trail[3].item
    /\ Texts(trail) = input
    /\ input = <<195, 169, 32, 49>>

(* C11, as claimed: when the scan has ended, the texts of the items that   *)
(* are not sentinels and the spans ignored join to the whole input.        *)
C11_Original == pc = "done" => Texts(trail) = input

(* C12: an input of spaces and newlines only (the empty input too) yields  *)
(* one item, EOF with empty text, and the driver halts after it: nothing   *)
(* but that item is ever sent, the driver has sent it when it has halted,  *)
(* the state function that sent it returns nil, and until the driver has   *)
(* halted some goroutine can take a step that changes the state.           *)
C12_WhitespaceOnlyEOF ==
    LET eof == Item(EOF, Len(input), <<>>)
    IN  Whitespace(input) =>
            /\ sent \in {<<>>, <<eof>>}
            /\ pc = "done" => sent = <<eof>>
            /\ (pc = "fn" /\ lpc = "emitted") =>
                    RunLoop(AfterEmit(state)) = "done"
            /\ pc # "done" => ENABLED <<LexStep>>_vars

C12_Witness ==
    /\ input = <<32, 10, 32>>
    /\ pc = "done"
    /\ received = <<Item(EOF, 3, <<>>)>>
    /\ Collected

(* C13: when lexStart meets a unit that none of its branches matches, it   *)
(* sends one ERROR item ("lex error", at start) and the driver halts with  *)
(* that item as the last one; in every scan a sentinel item is the last    *)
(* item sent, so there is at most one, and a halted driver sends nothing.  *)
C13_ErrorIsLast ==
    /\ [](\A i \in 1..Len(sent) - 1 : ~Sentinel(sent[i]))
    /\ []((sent # <<>> /\ Sentinel(Last(sent)) /\ ~Sending) =>
            \/ pc = "done"
            \/ pc = "fn" /\ lpc = "emitted" /\ AfterEmit(state) = NilState)
    /\ [][/\ (Called(lexStart) /\ Unmatched(Peek(input, pos, width).r)
                /\ LexStart) =>
                    /\ out' = Item(ERROR, start, lexError)
                    /\ sent' = Append(sent, out')
                    /\ pc' = "ReturnErrorf"
          /\ (pc = "ReturnErrorf" /\ SendDone) =>
                    /\ pc' = "done"
                    /\ Last(sent').Typ = ERROR
          /\ pc = "done" => (pc' = "done" /\ sent' = sent)]_vars

C13_Witness ==
    /\ pc = "done"
    /\ input = <<97, 32, 33>>
    /\ received = sent
    /\ Kinds(sent) = << <<IDENTIFIER, <<97>>>>, <<ERROR, lexError>> >>
    /\ Last(sent).Pos = 2

(* C14: a balanced comment is discarded: for an input u c v with a comment *)
(* c, no item emitted lies in c, and the kinds and texts of the items are  *)
(* the ones of the scan of u, a space, v; the input of the test with a     *)
(* nested comment yields IDENTIFIER "hokus", IDENTIFIER "pokus", EOF.      *)
C14_CommentDiscarded ==
    pc = "done" =>
        /\ sent = Scan(input)
        /\ \A u \in Before, c \in Comments, v \in After :
            input = u \o c \o v =>
                /\ Kinds(sent) = Kinds(Scan(u \o <<32>> \o v))
                /\ \A i \in 1..Len(sent) :
                    \/ Sentinel(sent[i])
                    \/ sent[i].Pos + Len(sent[i].Val) <= Len(u)
                    \/ sent[i].Pos >= Len(u) + Len(c)
        /\ input = TestComment =>
                Kinds(sent) = << <<IDENTIFIER, <<104, 111, 107, 117, 115>>>>,
                                 <<IDENTIFIER, <<112, 111, 107, 117, 115>>>>,
                                 <<EOF, <<>>>> >>

C14_Witness ==
    /\ pc = "done"
    /\ input = <<97, 40, 42, 40, 42, 42, 41, 42, 41, 97>>
    /\ Kinds(received) = << <<IDENTIFIER, <<97>>>>, <<IDENTIFIER, <<97>>>>,
                            <<EOF, <<>>>> >>

(* C15: a run of digits with an operator character right after it, and     *)
(* nothing else, yields INTEGER with the whole run, the item of the        *)
(* operator, EOF; "(123 + 654) - 990" yields the items of its test.        *)
C15_SplitAtClass ==
    pc = "done" =>
        /\ \A n \in 1..Len(input) :
            (/\ n = Len(input) - 1
             /\ \A i \in 1..n : IsDigit(input[i])
             /\ input[n + 1] \in {43, 45, 40, 41}) =>
                sent = <<Item(INTEGER, 0, SubSeq(input, 1, n)),
                         Item(OpType(input[n + 1]), n, <<input[n + 1]>>),
                         Item(EOF, n + 1, <<>>)>>
        /\ input = TestExpr =>
                Kinds(sent) = << <<LPAREN, <<40>>>>,
                                 <<INTEGER, <<49, 50, 51>>>>,
                                 <<PLUS, <<43>>>>,
                                 <<INTEGER, <<54, 53, 52>>>>,
                                 <<RPAREN, <<41>>>>,
                                 <<MINUS, <<45>>>>,
                                 <<INTEGER, <<57, 57, 48>>>>,
                                 <<EOF, <<>>>> >>

C15_Witness ==
    /\ pc = "done"
    /\ input = TestPlus
    /\ received = <<Item(INTEGER, 0, <<49, 50, 51>>), Item(PLUS, 3, <<43>>),
                    Item(EOF, 4, <<>>)>>

(* C16: the driver runs state functions while s.state is not nil: it is    *)
(* in a state function only with a state that is not nil, a state function *)
(* that returns next leaves next in s.state and the driver goes on exactly *)
(* when next is not nil, and once the driver has halted it sends nothing   *)
(* and state, pos, start and width do not change any more.                 *)
C16_DriverHalts ==
    /\ [](pc \in {"fn", "Emit", "Errorf", "ReturnErrorf"} => state # NilState)
    /\ [](pc = "done" => state = NilState)
    /\ [][/\ \A next \in {NilState, FnState} :
                (Return(next) =>
                    /\ state' = next
                    /\ pc' = IF next = NilState THEN "done" ELSE "fn")
           /\ (pc = "done" =>
                    /\ pc' \in {"done", "panic"}
                    /\ UNCHANGED <<state, pos, start, width, sent, out>>)]_vars

C16_Witness ==
    /\ pc = "done"
    /\ op = "return"
    /\ cpc = "recv"
    /\ Len(received) = 1
    /\ received = sent
    /\ pos = 2

(* C17: pos is a boundary between the encoded units of the input, from 0   *)
(* to the length of the input, for a chain that calls Backup at most once  *)
(* per call of Next.                                                       *)
C17_PosOnBoundary == pos \in Boundaries(0)

(* C18: the consumer writes no field of the Scanner: a step of NextItem    *)
(* leaves input, state, pos, start, width and lastPos as they are.         *)
C18_ConsumerWritesNothing ==
    [][(NextItemCall \/ NextItemReturn) =>
            UNCHANGED <<input, state, pos, start, width, lastPos>>]_vars

(* C19: a scan with the example grammar and collect ends under fair        *)
(* scheduling, no side blocked or looping for ever: until collect has      *)
(* received EOF or ERROR and the driver has halted, some goroutine can     *)
(* take a step that changes the state. (Where no step changes the state,   *)
(* the fair runs from there never end.)                                    *)
C19_ScanTerminates == (Collected /\ pc = "done") \/ ENABLED <<LexStep>>_vars

(* C20: 0 <= start <= pos <= len(input), for a chain that calls Backup at  *)
(* most once per call of Next.                                             *)
C20_StartPosLen == 0 <= start /\ start <= pos /\ pos <= Len(input)

====
